---------------------------- MODULE Spec2Model ----------------------------
(***************************************************************************)
(* Model of rectangle_packing.py: the combinatorial search layer above the *)
(* rpack placement oracle.  Rectangles are tuples <<w, h>>; Python's       *)
(* 0-based s[0], s[1] are s[1], s[2] here.  Every pure function of the     *)
(* source is an operator computed the way the source computes it; every    *)
(* entry point is an action that performs the whole call.                  *)
(***************************************************************************)
EXTENDS Integers, Sequences, FiniteSets

VARIABLES sizes,            \* the caller's list of sizes
          width, height,    \* the bin (max_width, max_height)
          area,             \* the area budget handed to find_sorted_areas
          threshold,        \* coverage threshold: NoThreshold or <<num, den>>
          oracle,           \* which deterministic placement oracle stands for rpack.pack
          entry,            \* the entry point being run
          pc,               \* "call" before the call, "loop"/"break" inside multi_sheet_packing, "done"
          remaining_sizes,  \* multi_sheet_packing: the item pool
          sheets,           \* multi_sheet_packing: the sheet collection
          result,           \* the value returned to the caller
          raised,           \* "" or the name of the exception that left the entry point
          calls             \* the size lists handed to the oracle, in call order

vars == <<sizes, width, height, area, threshold, oracle, entry, pc,
          remaining_sizes, sheets, result, raised, calls>>

-----------------------------------------------------------------------------
(* Bounds of the model *)
MaxLen == 3        \* longest enumerated input list
MaxDim == 2        \* largest enumerated rectangle side
MaxBin == 3        \* largest enumerated bin side
MaxArea == 6       \* largest enumerated area budget of find_sorted_areas
MaxSheets == 7     \* cap on the sheet collection (only a non-terminating run reaches it)
MaxBadLen == 2     \* longest enumerated input list with a malformed size

-----------------------------------------------------------------------------
(* Generic list helpers *)

\* Python's [x] * n
Rep(x, n) == [k \in 1..(IF n > 0 THEN n ELSE 0) |-> x]

\* Python's `x in lst`
In(x, lst) == \E k \in 1..Len(lst) : lst[k] = x

\* Python's lst.remove(x): drops the first occurrence
RECURSIVE Remove(_, _)
Remove(lst, x) ==
    IF lst = <<>> THEN <<>>
    ELSE IF Head(lst) = x THEN Tail(lst)
    ELSE <<Head(lst)>> \o Remove(Tail(lst), x)

\* sz.extend(v) for every v of values (lines 83-88, 151-156)
RECURSIVE Flatten(_)
Flatten(values) ==
    IF values = <<>> THEN <<>> ELSE Head(values) \o Flatten(Tail(values))

\* itertools.product(*lists): the last list varies fastest
RECURSIVE Product(_)
Product(lists) ==
    IF lists = <<>> THEN << <<>> >>
    ELSE LET rest == Product(Tail(lists))
             row(x) == [k \in 1..Len(rest) |-> <<x>> \o rest[k]]
         IN  Flatten([k \in 1..Len(Head(lists)) |-> row(Head(lists)[k])])

\* tmp = s if s[0] < s[1] else (s[1], s[0])
Canon(s) == IF s[1] < s[2] THEN s ELSE <<s[2], s[1]>>

\* d[k] += 1, or d[k] = 1 on KeyError; a dict is a list of <<key, count>> in insertion order
DictInc(d, k) ==
    IF \E n \in 1..Len(d) : d[n][1] = k
    THEN [n \in 1..Len(d) |-> IF d[n][1] = k THEN <<k, d[n][2] + 1>> ELSE d[n]]
    ELSE Append(d, <<k, 1>>)

-----------------------------------------------------------------------------
(* Rotation enumeration *)

\* A plausible slip: the final all-unrotated sequence (line 25) is forgotten
unique_rotation_combinations_NoLast(shape, N) ==
    LET revshape == <<shape[2], shape[1]>>
    IN  [n \in 1..N |-> Rep(shape, n - 1) \o Rep(revshape, N - (n - 1))]

\* A plausible slip: rotated copies placed before the unrotated ones
unique_rotation_combinations_Swapped(shape, N) ==
    LET revshape == <<shape[2], shape[1]>>
    IN  [n \in 1..N |-> Rep(revshape, N - (n - 1)) \o Rep(shape, n - 1)]
        \o << Rep(shape, N) >>

unique_rotation_combinations(shape, N) ==
    LET revshape == <<shape[2], shape[1]>>
    IN  [n \in 1..N |-> Rep(shape, n - 1) \o Rep(revshape, N - (n - 1))]
        \o << Rep(shape, N) >>

\* for s in sizes: if not isinstance(s, tuple) or len(s) != 2: raise TypeError
find_rotations_raises(szs) == \E k \in 1..Len(szs) : Len(szs[k]) # 2

\* the dicts `rotatable` and `symmetric` after the loop of lines 56-68
RECURSIVE ShapeDict(_, _)
ShapeDict(szs, sym) ==
    IF szs = <<>> THEN <<>>
    ELSE LET s == szs[Len(szs)]
             d == ShapeDict(SubSeq(szs, 1, Len(szs) - 1), sym)
         IN  IF (s[1] = s[2]) = sym THEN DictInc(d, Canon(s)) ELSE d

find_rotations(szs) ==
    LET rotatable == ShapeDict(szs, FALSE)
        symmetric == ShapeDict(szs, TRUE)
        tmp == [n \in 1..Len(rotatable) |->
                   unique_rotation_combinations(rotatable[n][1], rotatable[n][2])]
        prepend == Flatten([n \in 1..Len(symmetric) |->
                               Rep(symmetric[n][1], symmetric[n][2])])
        prod == Product(tmp)
    IN  [n \in 1..Len(prod) |-> prepend \o Flatten(prod[n])]

-----------------------------------------------------------------------------
(* Subset enumeration *)

NoThreshold == <<>>           \* threshold=None
DefaultThreshold == <<9, 10>> \* threshold=0.9, as the exact fraction 9/10

unique_keep_combinations(shape, N) == [n \in 1..(N + 1) |-> Rep(shape, n - 1)]

\* the dict `uniques` after the loop of lines 138-143
RECURSIVE Uniques(_)
Uniques(szs) ==
    IF szs = <<>> THEN <<>>
    ELSE DictInc(Uniques(SubSeq(szs, 1, Len(szs) - 1)), Canon(szs[Len(szs)]))

\* sum([t[0] * t[1] for t in c])
RECURSIVE SumAreas(_)
SumAreas(c) ==
    IF c = <<>> THEN 0 ELSE Head(c)[1] * Head(c)[2] + SumAreas(Tail(c))

\* A plausible slip: `<` for `<=`, so a selection that fills the budget exactly is dropped
Retained_Strict(a, budget, thr) ==
    /\ a > 0
    /\ a < budget
    /\ (thr = NoThreshold \/ a * thr[2] >= thr[1] * budget)

\* a > 0 and a <= area and (threshold is None or a >= threshold * area)
Retained(a, budget, thr) ==
    /\ a > 0
    /\ a <= budget
    /\ (thr = NoThreshold \/ a * thr[2] >= thr[1] * budget)

\* A plausible slip: descending order obtained by reversing an ascending
\* sort, which reverses the order of equal keys
RECURSIVE SortByAreaDescending_Reversed(_)
SortByAreaDescending_Reversed(output) ==
    IF output = <<>> THEN <<>>
    ELSE LET x == output[Len(output)]
             sorted == SortByAreaDescending_Reversed(SubSeq(output, 1, Len(output) - 1))
             before == SelectSeq(sorted, LAMBDA y : y[2] > x[2])
             after == SelectSeq(sorted, LAMBDA y : y[2] <= x[2])
         IN  before \o <<x>> \o after

\* output.sort(key=lambda x: x[1], reverse=True): stable, so an element goes
\* behind the earlier elements whose key is not smaller
RECURSIVE SortByAreaDescending(_)
SortByAreaDescending(output) ==
    IF output = <<>> THEN <<>>
    ELSE LET x == output[Len(output)]
             sorted == SortByAreaDescending(SubSeq(output, 1, Len(output) - 1))
             before == SelectSeq(sorted, LAMBDA y : y[2] >= x[2])
             after == SelectSeq(sorted, LAMBDA y : y[2] < x[2])
         IN  before \o <<x>> \o after

find_sorted_areas(szs, budget, thr) ==
    LET uniques == Uniques(szs)
        tmp == [n \in 1..Len(uniques) |->
                   unique_keep_combinations(uniques[n][1], uniques[n][2])]
        prod == Product(tmp)
        flat == [n \in 1..Len(prod) |-> Flatten(prod[n])]
        combs == SelectSeq(flat, LAMBDA sz : Len(sz) > 0)
        pairs == [n \in 1..Len(combs) |-> <<combs[n], SumAreas(combs[n])>>]
        output == SortByAreaDescending(
                      SelectSeq(pairs, LAMBDA ca : Retained(ca[2], budget, thr)))
    IN  << [n \in 1..Len(output) |-> output[n][1]],
           [n \in 1..Len(output) |-> output[n][2]] >>

-----------------------------------------------------------------------------
(* The placement oracle: rpack.pack and rpack.packing_density are external.
   Three deterministic oracles stand for them; each returns non-overlapping
   positions inside the bin or reports PackingImpossibleError, and the density
   is the items' area over the area of their bounding box, kept as the exact
   fraction <<numerator, denominator>>. *)

Max(a, b) == IF a >= b THEN a ELSE b

\* sum of side d (1 = width, 2 = height) over the first n items
RECURSIVE SumSide(_, _, _)
SumSide(c, d, n) == IF n = 0 THEN 0 ELSE c[n][d] + SumSide(c, d, n - 1)

RECURSIVE MaxSide(_, _, _)
MaxSide(c, d, n) == IF n = 0 THEN 0 ELSE Max(c[n][d], MaxSide(c, d, n - 1))

\* shelves filled left to right, a new shelf opened when the row is full
RECURSIVE ShelfPlace(_, _, _, _, _, _, _, _)
ShelfPlace(c, n, x, y, sh, pos, W, H) ==
    IF n > Len(c) THEN [ok |-> TRUE, positions |-> pos]
    ELSE LET w == c[n][1]
             h == c[n][2]
             wrap == x + w > W
             nx == IF wrap THEN 0 ELSE x
             ny == IF wrap THEN y + sh ELSE y
             nsh == IF wrap THEN h ELSE Max(sh, h)
         IN  IF w > W \/ ny + nsh > H
             THEN [ok |-> FALSE, positions |-> <<>>]
             ELSE ShelfPlace(c, n + 1, nx + w, ny, nsh, Append(pos, <<nx, ny>>), W, H)

\* pack(c, max_width, max_height): ok = FALSE stands for PackingImpossibleError
pack(c, W, H, kind) ==
    CASE kind = "row" ->
            IF SumSide(c, 1, Len(c)) <= W /\ MaxSide(c, 2, Len(c)) <= H
            THEN [ok |-> TRUE, positions |-> [n \in 1..Len(c) |-> <<SumSide(c, 1, n - 1), 0>>]]
            ELSE [ok |-> FALSE, positions |-> <<>>]
      [] kind = "column" ->
            IF SumSide(c, 2, Len(c)) <= H /\ MaxSide(c, 1, Len(c)) <= W
            THEN [ok |-> TRUE, positions |-> [n \in 1..Len(c) |-> <<0, SumSide(c, 2, n - 1)>>]]
            ELSE [ok |-> FALSE, positions |-> <<>>]
      [] kind = "shelf" -> ShelfPlace(c, 1, 0, 0, 0, <<>>, W, H)

\* the oracle rejects sizes that are not positive with an error of its own
pack_raises(c) == \E n \in 1..Len(c) : c[n][1] <= 0 \/ c[n][2] <= 0

RECURSIVE BoundingSide(_, _, _, _)
BoundingSide(c, positions, d, n) ==
    IF n = 0 THEN 0
    ELSE Max(positions[n][d] + c[n][d], BoundingSide(c, positions, d, n - 1))

\* packing_density(c, positions)
packing_density(c, positions) ==
    << SumAreas(c),
       BoundingSide(c, positions, 1, Len(c)) * BoundingSide(c, positions, 2, Len(c)) >>

\* density > best_density on exact fractions with positive denominators
DensityGreater(d, b) == d[1] * b[2] > b[1] * d[2]

OracleKinds == {"row", "column", "shelf"}

-----------------------------------------------------------------------------
(* Single-bin search *)

NoBest == [found |-> FALSE, density |-> <<0, 1>>, sizes |-> <<>>, positions |-> <<>>]

\* A plausible slip: `>=` for `>`, so the last of equally dense results wins
ImprovesOn_OrEqual(density, best) ==
    \/ ~best.found
    \/ ~DensityGreater(best.density, density)

\* if best_density is None or density > best_density
ImprovesOn(density, best) ==
    \/ ~best.found
    \/ DensityGreater(density, best.density)

\* the loop of lines 106-118 from rot_combs[n] on; best.found = FALSE is
\* best_density = None
RECURSIVE SearchRotations(_, _, _, _, _, _, _)
SearchRotations(rot_combs, n, best, made, W, H, kind) ==
    IF n > Len(rot_combs)
    THEN [raised |-> "", found |-> best.found, best_sizes |-> best.sizes,
          best_positions |-> best.positions, calls |-> made]
    ELSE LET c == rot_combs[n]
             now == Append(made, c)
         IN  IF pack_raises(c)
             THEN [raised |-> "OracleError", found |-> FALSE, best_sizes |-> <<>>,
                   best_positions |-> <<>>, calls |-> now]
             ELSE LET p == pack(c, W, H, kind)
                      density == packing_density(c, p.positions)
                  IN  IF ~p.ok
                      THEN SearchRotations(rot_combs, n + 1, best, now, W, H, kind)
                      ELSE IF ImprovesOn(density, best)
                      THEN SearchRotations(rot_combs, n + 1,
                               [found |-> TRUE, density |-> density, sizes |-> c,
                                positions |-> p.positions], now, W, H, kind)
                      ELSE SearchRotations(rot_combs, n + 1, best, now, W, H, kind)

\* returns (best_sizes, best_positions); found = FALSE is (None, None)
find_optimal_packing(szs, W, H, kind) ==
    IF find_rotations_raises(szs)
    THEN [raised |-> "TypeError", found |-> FALSE, best_sizes |-> <<>>,
          best_positions |-> <<>>, calls |-> <<>>]
    ELSE SearchRotations(find_rotations(szs), 1, NoBest, <<>>, W, H, kind)

-----------------------------------------------------------------------------
(* Max-usage search *)

\* A plausible slip: the search does not stop at the first feasible subset
RECURSIVE TrySets_KeepGoing(_, _, _, _, _, _)
TrySets_KeepGoing(size_sets, n, made, W, H, kind) ==
    IF n > Len(size_sets)
    THEN [raised |-> "", found |-> FALSE, best_sizes |-> <<>>,
          best_positions |-> <<>>, calls |-> made]
    ELSE LET r == find_optimal_packing(size_sets[n], W, H, kind)
             later == TrySets_KeepGoing(size_sets, n + 1, made \o r.calls, W, H, kind)
         IN  IF r.raised # "" \/ (r.found /\ ~later.found)
             THEN [r EXCEPT !.calls = later.calls]
             ELSE later

\* the loop of lines 191-202 from size_sets[n] on
RECURSIVE TrySets(_, _, _, _, _, _)
TrySets(size_sets, n, made, W, H, kind) ==
    IF n > Len(size_sets)
    THEN [raised |-> "", found |-> FALSE, best_sizes |-> <<>>,
          best_positions |-> <<>>, calls |-> made]
    ELSE LET r == find_optimal_packing(size_sets[n], W, H, kind)
         IN  IF r.raised # "" \/ r.found
             THEN [r EXCEPT !.calls = made \o r.calls]
             ELSE TrySets(size_sets, n + 1, made \o r.calls, W, H, kind)

find_max_usage(szs, W, H, thr, kind) ==
    TrySets(find_sorted_areas(szs, W * H, thr)[1], 1, <<>>, W, H, kind)

-----------------------------------------------------------------------------
(* Inputs *)

Rects == {<<w, h>> : w \in 1..MaxDim, h \in 1..MaxDim}

\* the lists of section 8's scenarios and of the source's own example (line 336)
Scenarios ==
    { << <<4,3>>, <<4,3>>, <<2,2>> >>,
      << <<2,2>>, <<2,2>>, <<2,2>>, <<2,2>>, <<2,2>> >>,
      << <<4,3>>, <<4,3>>, <<2,2>>, <<2,2>>, <<3,1>>, <<8,7>>, <<7,8>>, <<2,10>> >> }

WellFormedInputs == UNION {[1..n -> Rects] : n \in 0..MaxLen} \cup Scenarios

WellFormed(s) == Len(s) = 2 /\ s[1] > 0 /\ s[2] > 0

AllWellFormed(szs) == \A k \in 1..Len(szs) : WellFormed(szs[k])

-----------------------------------------------------------------------------
(* Specification of find_rotations as a call *)

InitRot ==
    /\ sizes \in WellFormedInputs
    /\ width = 0 /\ height = 0 /\ area = 0
    /\ threshold = NoThreshold
    /\ oracle = "row"
    /\ entry = "find_rotations"
    /\ pc = "call"
    /\ remaining_sizes = <<>> /\ sheets = <<>>
    /\ result = <<>>
    /\ raised = ""
    /\ calls = <<>>

CallFindRotations ==
    /\ pc = "call" /\ entry = "find_rotations"
    /\ IF find_rotations_raises(sizes)
       THEN raised' = "TypeError" /\ result' = result
       ELSE raised' = raised /\ result' = find_rotations(sizes)
    /\ pc' = "done"
    /\ UNCHANGED <<sizes, width, height, area, threshold, oracle, entry,
                   remaining_sizes, sheets, calls>>

SpecRot == InitRot /\ [][CallFindRotations]_vars

-----------------------------------------------------------------------------
(* Specification of find_sorted_areas as a call *)

Thresholds == {NoThreshold, DefaultThreshold, <<1, 2>>}

InitAreas ==
    /\ sizes \in WellFormedInputs
    /\ width = 0 /\ height = 0
    /\ area \in 1..MaxArea
    /\ threshold \in Thresholds
    /\ oracle = "row"
    /\ entry = "find_sorted_areas"
    /\ pc = "call"
    /\ remaining_sizes = <<>> /\ sheets = <<>>
    /\ result = <<>>
    /\ raised = ""
    /\ calls = <<>>

CallFindSortedAreas ==
    /\ pc = "call" /\ entry = "find_sorted_areas"
    /\ result' = find_sorted_areas(sizes, area, threshold)
    /\ pc' = "done"
    /\ UNCHANGED <<sizes, width, height, area, threshold, oracle, entry,
                   remaining_sizes, sheets, raised, calls>>

SpecAreas == InitAreas /\ [][CallFindSortedAreas]_vars

-----------------------------------------------------------------------------
(* Specifications of the oracle-driven entry points *)

\* bins of the scenarios of section 8, next to the enumerated ones
ScenarioBins == {<<6, 5>>, <<4, 6>>, <<10, 2>>, <<2, 12>>}

Bins == {<<w, h>> : w \in 1..MaxBin, h \in 1..MaxBin} \cup ScenarioBins

\* the lists of section 8's scenarios that are searched with an oracle
PoolScenarios ==
    { << <<4,3>>, <<4,3>>, <<2,2>> >>,
      << <<2,2>>, <<2,2>>, <<2,2>>, <<2,2>>, <<2,2>> >>,
      << <<7,7>> >> }

\* the catalogue of shapes the enumerated pools are made of: two symmetric
\* shapes, one rotatable shape in both orientations and a second rotatable one
PoolRects == {<<1,1>>, <<1,2>>, <<2,1>>, <<2,2>>, <<3,1>>}

Pools == UNION {[1..n -> PoolRects] : n \in 1..MaxLen} \cup PoolScenarios

InitSearch(e, pools, thresholds) ==
    /\ sizes \in pools
    /\ \E b \in Bins : width = b[1] /\ height = b[2] /\ area = b[1] * b[2]
    /\ threshold \in thresholds
    /\ oracle \in OracleKinds
    /\ entry = e
    /\ pc = "call"
    /\ remaining_sizes = <<>> /\ sheets = <<>>
    /\ result = <<>>
    /\ raised = ""
    /\ calls = <<>>

\* (best_sizes, best_positions) as handed back to the caller
Returned(r) == [found |-> r.found, best_sizes |-> r.best_sizes,
                best_positions |-> r.best_positions]

CallFindOptimalPacking ==
    /\ pc = "call" /\ entry = "find_optimal_packing"
    /\ LET r == find_optimal_packing(sizes, width, height, oracle)
       IN  /\ raised' = r.raised
           /\ result' = IF r.raised = "" THEN Returned(r) ELSE result
           /\ calls' = r.calls
    /\ pc' = "done"
    /\ UNCHANGED <<sizes, width, height, area, threshold, oracle, entry,
                   remaining_sizes, sheets>>

CallFindMaxUsage ==
    /\ pc = "call" /\ entry = "find_max_usage"
    /\ LET r == find_max_usage(sizes, width, height, threshold, oracle)
       IN  /\ raised' = r.raised
           /\ result' = IF r.raised = "" THEN Returned(r) ELSE result
           /\ calls' = r.calls
    /\ pc' = "done"
    /\ UNCHANGED <<sizes, width, height, area, threshold, oracle, entry,
                   remaining_sizes, sheets>>

\* A plausible slip: only the exact orientation is looked up in the pool
RemoveOne_ExactOnly(remaining, s) ==
    IF In(s, remaining) THEN Remove(remaining, s) ELSE remaining

\* lines 219-222 for one placed size s
RemoveOne(remaining, s) ==
    IF In(s, remaining) THEN Remove(remaining, s)
    ELSE IF In(<<s[2], s[1]>>, remaining) THEN Remove(remaining, <<s[2], s[1]>>)
    ELSE remaining

\* A plausible slip: the removal loop is left after the first placed size
RemoveLocated_FirstOnly(remaining, located) ==
    IF located = <<>> THEN remaining ELSE RemoveOne(remaining, Head(located))

\* for s in located_sizes: ... (lines 218-222)
RECURSIVE RemoveLocated(_, _)
RemoveLocated(remaining, located) ==
    IF located = <<>> THEN remaining
    ELSE RemoveLocated(RemoveOne(remaining, Head(located)), Tail(located))

\* remaining_sizes = [*sizes]; sheets = []
MultiSheetStart ==
    /\ pc = "call" /\ entry = "multi_sheet_packing"
    /\ remaining_sizes' = sizes
    /\ sheets' = <<>>
    /\ pc' = "loop"
    /\ UNCHANGED <<sizes, width, height, area, threshold, oracle, entry,
                   result, raised, calls>>

\* one iteration of the while loop (lines 213-222)
MultiSheetIterate ==
    /\ pc = "loop"
    /\ Len(remaining_sizes) > 0
    /\ Len(sheets) < MaxSheets
    /\ LET r == find_max_usage(remaining_sizes, width, height, NoThreshold, oracle)
       IN  /\ calls' = calls \o r.calls
           /\ IF r.raised # ""
              THEN /\ raised' = r.raised
                   /\ pc' = "done"
                   /\ UNCHANGED <<sheets, remaining_sizes>>
              ELSE IF ~r.found
              THEN /\ pc' = "break"
                   /\ UNCHANGED <<sheets, remaining_sizes, raised>>
              ELSE /\ sheets' = Append(sheets, <<r.best_sizes, r.best_positions>>)
                   /\ remaining_sizes' = RemoveLocated(remaining_sizes, r.best_sizes)
                   /\ pc' = "loop"
                   /\ UNCHANGED raised
    /\ UNCHANGED <<sizes, width, height, area, threshold, oracle, entry, result>>

\* return sheets, after the loop condition failed or the loop was left by break
MultiSheetReturn ==
    /\ \/ pc = "break"
       \/ pc = "loop" /\ Len(remaining_sizes) = 0
    /\ result' = sheets
    /\ pc' = "done"
    /\ UNCHANGED <<sizes, width, height, area, threshold, oracle, entry,
                   remaining_sizes, sheets, raised, calls>>

InitOpt == InitSearch("find_optimal_packing", Pools, {NoThreshold})

SpecOpt == InitOpt /\ [][CallFindOptimalPacking]_vars

InitMax == InitSearch("find_max_usage", Pools, {NoThreshold, DefaultThreshold})

SpecMax == InitMax /\ [][CallFindMaxUsage]_vars

Init == InitSearch("multi_sheet_packing", Pools, {NoThreshold})

Next == MultiSheetStart \/ MultiSheetIterate \/ MultiSheetReturn

Spec == Init /\ [][Next]_vars

-----------------------------------------------------------------------------
(* Specification of the entry points on malformed input *)

\* sizes that are not positive, and sizes that are not 2-valued
MalformedRects == {<<0,1>>, <<1,0>>, <<-1,2>>, <<1,2,3>>, <<2,1,3>>}

MalformedInputs ==
    {szs \in UNION {[1..n -> PoolRects \cup MalformedRects] : n \in 1..MaxBadLen} :
        ~AllWellFormed(szs)}

InitMalformed ==
    \E e \in {"find_rotations", "find_optimal_packing", "find_max_usage",
              "multi_sheet_packing"} :
        InitSearch(e, MalformedInputs,
                   IF e = "find_max_usage" THEN {NoThreshold, DefaultThreshold}
                   ELSE {NoThreshold})

NextMalformed ==
    \/ CallFindRotations
    \/ CallFindOptimalPacking
    \/ CallFindMaxUsage
    \/ MultiSheetStart
    \/ MultiSheetIterate
    \/ MultiSheetReturn

SpecMalformed == InitMalformed /\ [][NextMalformed]_vars

-----------------------------------------------------------------------------
(* Shape groups of a list, stated independently of the enumerators *)

Swap(s) == <<s[2], s[1]>>

RotatableGroups(szs) == {Canon(szs[k]) : k \in {n \in 1..Len(szs) : szs[n][1] # szs[n][2]}}

SymmetricGroups(szs) == {szs[k] : k \in {n \in 1..Len(szs) : szs[n][1] = szs[n][2]}}

Multiplicity(g, szs) == Cardinality({k \in 1..Len(szs) : Canon(szs[k]) = g})

\* the members of group g in a list, in list order
OfGroup(lst, g) == SelectSeq(lst, LAMBDA x : Canon(x) = g)

\* k copies in canonical orientation followed by N-k copies in swapped orientation
Block(g, k, N) == Rep(g, k) \o Rep(Swap(g), N - k)

\* the largest multiplicity of a shape group
LargestGroup(szs) ==
    IF szs = <<>> THEN 0
    ELSE CHOOSE n \in 1..Len(szs) :
            /\ \E k \in 1..Len(szs) : Multiplicity(Canon(szs[k]), szs) = n
            /\ \A k \in 1..Len(szs) : Multiplicity(Canon(szs[k]), szs) <= n

\* one count of canonically oriented copies per rotatable group
OrientationCounts(szs) ==
    {f \in [RotatableGroups(szs) -> 0..LargestGroup(szs)] :
        \A g \in RotatableGroups(szs) : f[g] <= Multiplicity(g, szs)}

RotationsReturned == pc = "done" /\ entry = "find_rotations" /\ raised = ""

-----------------------------------------------------------------------------
(* C6: for well-formed sizes find_rotations returns exactly the product
   over rotatable groups of (N_g + 1) sequences, pairwise distinct, each as
   long as the input; a symmetric group contributes one unrotated block, and
   for every rotatable group of multiplicity N and every k in 0..N exactly
   one of the group's N+1 blocks is k canonical copies followed by N-k swapped
   copies. *)
C6_RotationCount ==
    (RotationsReturned /\ AllWellFormed(sizes)) =>
        /\ Len(result) = Cardinality(OrientationCounts(sizes))
        /\ Cardinality({result[n] : n \in 1..Len(result)}) = Len(result)
        /\ \A n \in 1..Len(result) :
              /\ Len(result[n]) = Len(sizes)
              /\ \A g \in SymmetricGroups(sizes) :
                    OfGroup(result[n], g) = Rep(g, Multiplicity(g, sizes))
        /\ \A f \in OrientationCounts(sizes) :
              Cardinality({n \in 1..Len(result) :
                  \A g \in RotatableGroups(sizes) :
                      OfGroup(result[n], g) = Block(g, f[g], Multiplicity(g, sizes))}) = 1
        /\ \A g \in RotatableGroups(sizes) :
              LET N == Multiplicity(g, sizes)
                  blocks == unique_rotation_combinations(g, N)
              IN  /\ Len(blocks) = N + 1
                  /\ \A k \in 0..N :
                        Cardinality({n \in 1..Len(blocks) : blocks[n] = Block(g, k, N)}) = 1

\* a returned enumeration over two rotatable groups and a symmetric one
C6_Witness ==
    /\ RotationsReturned
    /\ Cardinality(RotatableGroups(sizes)) >= 2
    /\ SymmetricGroups(sizes) # {}
    /\ Len(result) >= 6

-----------------------------------------------------------------------------
ScenarioRot == << <<4,3>>, <<4,3>>, <<2,2>> >>

GroupSequences(g) == {OfGroup(result[n], g) : n \in 1..Len(result)}

(* C9 as stated: for [(4,3),(4,3),(2,2)] the group {(3,4) x 2} yields exactly
   [(3,4),(3,4)], [(4,3),(3,4)], [(4,3),(4,3)] and the group {(2,2) x 1}
   yields exactly [(2,2)]. *)
C9_AsStated ==
    (RotationsReturned /\ sizes = ScenarioRot) =>
        /\ Len(result) = 3
        /\ GroupSequences(<<3,4>>) =
              { << <<3,4>>, <<3,4>> >>, << <<4,3>>, <<3,4>> >>, << <<4,3>>, <<4,3>> >> }
        /\ GroupSequences(<<2,2>>) = { << <<2,2>> >> }

(* C9 amended: for [(4,3),(4,3),(2,2)] the group {(3,4) x 2} yields exactly
   [(3,4),(3,4)], [(3,4),(4,3)], [(4,3),(4,3)] (canonical copies first, then
   swapped copies) and the group {(2,2) x 1} yields exactly [(2,2)]. *)
C9_ScenarioRotations ==
    (RotationsReturned /\ sizes = ScenarioRot) =>
        /\ Len(result) = 3
        /\ GroupSequences(<<3,4>>) =
              { << <<3,4>>, <<3,4>> >>, << <<3,4>>, <<4,3>> >>, << <<4,3>>, <<4,3>> >> }
        /\ GroupSequences(<<2,2>>) = { << <<2,2>> >> }
        /\ unique_rotation_combinations(<<3,4>>, 2) =
              << << <<4,3>>, <<4,3>> >>, << <<3,4>>, <<4,3>> >>, << <<3,4>>, <<3,4>> >> >>

\* the scenario's enumeration has been returned and holds the mixed sequence
C9_Witness ==
    /\ RotationsReturned /\ sizes = ScenarioRot
    /\ \E n \in 1..Len(result) : result[n] = << <<2,2>>, <<3,4>>, <<4,3>> >>

-----------------------------------------------------------------------------
(* Keep-count selections, stated independently of find_sorted_areas *)

ShapeGroups(szs) == {Canon(szs[k]) : k \in 1..Len(szs)}

\* one keep count per shape group, not all zero
KeepCounts(szs) ==
    {f \in [ShapeGroups(szs) -> 0..LargestGroup(szs)] :
        /\ \A g \in ShapeGroups(szs) : f[g] <= Multiplicity(g, szs)
        /\ \E g \in ShapeGroups(szs) : f[g] > 0}

RECURSIVE SelectionArea(_, _)
SelectionArea(f, groups) ==
    IF groups = {} THEN 0
    ELSE LET g == CHOOSE x \in groups : TRUE
         IN  f[g] * g[1] * g[2] + SelectionArea(f, groups \ {g})

Qualifies(f) ==
    LET a == SelectionArea(f, DOMAIN f)
    IN  /\ 0 < a
        /\ a <= area
        /\ (threshold # NoThreshold => a * threshold[2] >= threshold[1] * area)

\* the keep counts a returned candidate stands for
CountsOf(c, szs) ==
    [g \in ShapeGroups(szs) |-> Cardinality({k \in 1..Len(c) : c[k] = g})]

FirstIndex(g, szs) == CHOOSE k \in 1..Len(szs) :
    /\ Canon(szs[k]) = g
    /\ \A j \in 1..(k - 1) : Canon(szs[j]) # g

\* generation order of the Cartesian product: groups in order of first
\* appearance, keep counts ascending, the last group varying fastest
GeneratedBefore(f1, f2, szs) ==
    \E g \in ShapeGroups(szs) :
        /\ f1[g] < f2[g]
        /\ \A h \in ShapeGroups(szs) :
              FirstIndex(h, szs) < FirstIndex(g, szs) => f1[h] = f2[h]

AreasReturned == pc = "done" /\ entry = "find_sorted_areas"

(* C7: find_sorted_areas returns, exactly once each, every keep-count
   combination other than the all-zero one whose total area a satisfies
   0 < a <= budget and, with a threshold t, a >= t*budget, and nothing else;
   the output is ordered by non-increasing area, equal areas in generation
   order, and is empty when nothing qualifies. *)
C7_SortedAreas ==
    (AreasReturned /\ AllWellFormed(sizes)) =>
        LET size_sets == result[1]
            areas == result[2]
            wanted == {f \in KeepCounts(sizes) : Qualifies(f)}
            counts == [n \in 1..Len(size_sets) |-> CountsOf(size_sets[n], sizes)]
        IN  /\ Len(size_sets) = Cardinality(wanted)
            /\ Len(areas) = Len(size_sets)
            /\ \A f \in wanted :
                  Cardinality({n \in 1..Len(size_sets) : counts[n] = f}) = 1
            /\ \A n \in 1..Len(size_sets) :
                  /\ \A k \in 1..Len(size_sets[n]) : size_sets[n][k] \in ShapeGroups(sizes)
                  /\ counts[n] \in wanted
                  /\ areas[n] = SelectionArea(counts[n], ShapeGroups(sizes))
            /\ \A n \in 1..Len(areas) : \A m \in (n + 1)..Len(areas) :
                  /\ areas[n] >= areas[m]
                  /\ areas[n] = areas[m] => GeneratedBefore(counts[n], counts[m], sizes)
            /\ (wanted = {} => size_sets = <<>>)

\* a returned ranking with a tie, a strict descent and a rejected selection
C7_Witness ==
    /\ AreasReturned
    /\ threshold # NoThreshold
    /\ Len(result[2]) >= 3
    /\ \E n \in 1..(Len(result[2]) - 1) : result[2][n] = result[2][n + 1]
    /\ \E n \in 1..(Len(result[2]) - 1) : result[2][n] > result[2][n + 1]
    /\ Cardinality(KeepCounts(sizes)) > Len(result[1])

-----------------------------------------------------------------------------
(* Single-bin search, stated over the whole enumeration *)

OptReturned == pc = "done" /\ entry = "find_optimal_packing" /\ raised = ""

Accepted(c) == pack(c, width, height, oracle).ok

DensityOf(c) == packing_density(c, pack(c, width, height, oracle).positions)

(* C5: find_optimal_packing returns a result at least as dense as every
   rotation combination the oracle accepts, the first in enumeration order
   among the densest, and (None, None) exactly when the oracle rejects every
   combination; a rejected combination never ends the search. *)
C5_OptimalPacking ==
    OptReturned =>
        LET combs == find_rotations(sizes)
            feasible == {n \in 1..Len(combs) : Accepted(combs[n])}
        IN  /\ result.found <=> feasible # {}
            /\ calls = combs
            /\ result.found =>
                  \E n \in feasible :
                      /\ result.best_sizes = combs[n]
                      /\ result.best_positions = pack(combs[n], width, height, oracle).positions
                      /\ \A m \in feasible :
                            ~DensityGreater(DensityOf(combs[m]), DensityOf(combs[n]))
                      /\ \A m \in feasible :
                            m < n => DensityGreater(DensityOf(combs[n]), DensityOf(combs[m]))

\* a search with a rejected combination, a tie at the top density and a
\* less dense accepted combination
C5_Witness ==
    /\ OptReturned /\ result.found
    /\ LET combs == find_rotations(sizes)
       IN  /\ \E n \in 1..Len(combs) : ~Accepted(combs[n])
           /\ \E n \in 1..Len(combs) :
                 /\ Accepted(combs[n]) /\ combs[n] # result.best_sizes
                 /\ DensityOf(combs[n]) = DensityOf(result.best_sizes)
           /\ \E n \in 1..Len(combs) :
                 /\ Accepted(combs[n])
                 /\ DensityGreater(DensityOf(result.best_sizes), DensityOf(combs[n]))

-----------------------------------------------------------------------------
(* Max-usage search, stated over the candidates of the subset enumerator *)

MaxReturned == pc = "done" /\ entry = "find_max_usage"

RotationsOf(c) == LET combs == find_rotations(c) IN {combs[n] : n \in 1..Len(combs)}

Feasible(c) == LET combs == find_rotations(c) IN \E n \in 1..Len(combs) : Accepted(combs[n])

(* C4: find_max_usage returns the single-bin result of the first candidate,
   in the subset enumerator's descending-area order, that has an accepted
   rotation; no candidate of strictly greater area is feasible, the oracle is
   asked about the rotations of the candidates up to the winner and about no
   later candidate, and it returns (None, None), without raising, exactly
   when every candidate is infeasible. *)
C4_FirstFeasible ==
    (MaxReturned /\ AllWellFormed(sizes)) =>
        LET sorted == find_sorted_areas(sizes, width * height, threshold)
            size_sets == sorted[1]
            areas == sorted[2]
            feasible == {n \in 1..Len(size_sets) : Feasible(size_sets[n])}
        IN  /\ raised = ""
            /\ result.found <=> feasible # {}
            /\ ~result.found =>
                  calls = Flatten([m \in 1..Len(size_sets) |-> find_rotations(size_sets[m])])
            /\ result.found =>
                  \E n \in feasible :
                      /\ \A m \in feasible : n <= m
                      /\ result = Returned(find_optimal_packing(size_sets[n], width, height, oracle))
                      /\ \A m \in 1..Len(size_sets) :
                            areas[m] > areas[n] => m \notin feasible
                      /\ calls = Flatten([m \in 1..n |-> find_rotations(size_sets[m])])

\* the winner comes after an infeasible candidate and before a feasible one
C4_Witness ==
    /\ MaxReturned /\ raised = "" /\ result.found
    /\ LET size_sets == find_sorted_areas(sizes, width * height, threshold)[1]
       IN  /\ ~Feasible(size_sets[1])
           /\ Feasible(size_sets[Len(size_sets)])
           /\ result.best_sizes \notin RotationsOf(size_sets[Len(size_sets)])

-----------------------------------------------------------------------------
FiveSquares == << <<2,2>>, <<2,2>>, <<2,2>>, <<2,2>>, <<2,2>> >>

Even(n) == n % 2 = 0

FiveSquaresCase ==
    /\ MaxReturned /\ sizes = FiveSquares
    /\ Even(width) /\ Even(height)
    /\ Accepted(FiveSquares)

(* C8 as stated: for five (2,2) squares and an even-sided bin in which the
   oracle can place all five, find_max_usage with the default threshold
   selects the full 5-item subset. *)
C8_AsStated ==
    (FiveSquaresCase /\ threshold = DefaultThreshold) =>
        result.found /\ result.best_sizes = FiveSquares

(* C8 amended: for five (2,2) squares and an even-sided bin in which the
   oracle can place all five, find_max_usage selects the full 5-item subset
   when no threshold is given, or when the five squares cover at least the
   threshold fraction of the bin (20 >= t*W*H; with the default 0.9 only
   W*H = 20); otherwise no candidate is retained and it returns (None, None). *)
C8_FiveSquares ==
    /\ (FiveSquaresCase /\
        (threshold = NoThreshold \/ 20 * threshold[2] >= threshold[1] * width * height)) =>
            result.found /\ result.best_sizes = FiveSquares
    /\ (FiveSquaresCase /\ threshold # NoThreshold /\
        20 * threshold[2] < threshold[1] * width * height) =>
            ~result.found

\* the five squares fill a 10 x 2 bin under the default threshold
C8_Witness ==
    /\ FiveSquaresCase /\ threshold = DefaultThreshold
    /\ width * height = 20
    /\ result.best_sizes = FiveSquares

-----------------------------------------------------------------------------
(* The allocation loop *)

\* every size placed on a sheet, sheet after sheet
RECURSIVE Placed(_)
Placed(shs) == IF shs = <<>> THEN <<>> ELSE Head(shs)[1] \o Placed(Tail(shs))

CountOf(lst, g) == Cardinality({k \in 1..Len(lst) : Canon(lst[k]) = g})

InLoop == entry = "multi_sheet_packing" /\ pc \in {"loop", "break", "done"}

(* C1: after every iteration of the allocation loop and at termination the
   sizes placed on all sheets together with the item pool are the input
   multiset, compared by canonical shape: every placed size has removed
   exactly one pool instance. *)
C1_Conservation ==
    (InLoop /\ AllWellFormed(sizes)) =>
        /\ \A g \in ShapeGroups(sizes) :
              CountOf(Placed(sheets), g) + CountOf(remaining_sizes, g) = Multiplicity(g, sizes)
        /\ Len(Placed(sheets)) + Len(remaining_sizes) = Len(sizes)
        /\ \A k \in 1..Len(remaining_sizes) : In(remaining_sizes[k], sizes)

\* two sheets filled, one of them with a size placed in the orientation the
\* input did not have
C1_Witness ==
    /\ entry = "multi_sheet_packing" /\ pc = "done"
    /\ Len(sheets) >= 2
    /\ \E k \in 1..Len(Placed(sheets)) : ~In(Placed(sheets)[k], sizes)

(* C2 as stated: when multi_sheet_packing stops with a non-empty pool, the
   remaining items are part of the value returned to the caller, so the
   returned value accounts for every input item. *)
C2_LeftoversReturned ==
    (entry = "multi_sheet_packing" /\ pc = "done" /\ raised = ""
        /\ AllWellFormed(sizes) /\ Len(remaining_sizes) > 0) =>
        \A g \in ShapeGroups(sizes) :
            CountOf(Placed(result), g) = Multiplicity(g, sizes)

StopsLoop ==
    /\ pc' = "break"
    /\ sheets' = sheets
    /\ remaining_sizes' = remaining_sizes

AppendsOneSheet ==
    /\ pc' = "loop"
    /\ Len(sheets') = Len(sheets) + 1
    /\ SubSeq(sheets', 1, Len(sheets)) = sheets
    /\ Len(sheets'[Len(sheets')][1]) >= 1
    /\ Len(remaining_sizes') = Len(remaining_sizes) - Len(sheets'[Len(sheets')][1])

\* some action of the allocator is enabled: the guards of MultiSheetStart,
\* MultiSheetIterate and MultiSheetReturn
CanStep ==
    \/ pc = "call" /\ entry = "multi_sheet_packing"
    \/ pc = "loop" /\ Len(remaining_sizes) > 0 /\ Len(sheets) < MaxSheets
    \/ pc = "break"
    \/ pc = "loop" /\ Len(remaining_sizes) = 0

(* C10: multi_sheet_packing terminates: every loop iteration either stops
   the loop or appends exactly one non-empty sheet and shrinks the pool by
   the number of sizes placed on it (so the pool size is a strictly decreasing
   measure), earlier sheets stay as they are, there are never more sheets than
   input items, and the run is never stuck before it has returned. *)
C10_Termination ==
    /\ [][(pc = "loop" /\ Len(remaining_sizes) > 0) => (StopsLoop \/ AppendsOneSheet)]_vars
    /\ [][Len(remaining_sizes') <= Len(remaining_sizes) \/ pc = "call"]_vars
    /\ [](Len(sheets) <= Len(sizes))
    /\ [](pc = "done" \/ CanStep)

\* a run that filled two sheets and then stopped with items left over
C10_Witness ==
    /\ entry = "multi_sheet_packing" /\ pc = "done"
    /\ Len(result) >= 2
    /\ Len(remaining_sizes) > 0

-----------------------------------------------------------------------------
(* C3 as stated: whenever an input rectangle is malformed, every search
   entry point ends in the InvalidInput error at once: no oracle call is made
   and no normal result is returned. *)
C3_InvalidInputFailsFast ==
    (pc = "done" /\ ~AllWellFormed(sizes)) =>
        raised = "TypeError" /\ calls = <<>>

=============================================================================
